---- MODULE Spec2Model ----
(***************************************************************************)
(* A model of package mux (touchmarine/mux, mux.go): the pattern table,    *)
(* registration (HandleFunc, RegexpHandleFunc, register), Mount, and the   *)
(* dispatch of a request (ServeHTTP, urlWithoutSlash, isLower).            *)
(*                                                                         *)
(* Strings are sequences of characters.  A character is one of             *)
(*   "/"   the path separator (not a letter)                               *)
(*   "a"   a lower-case letter                                             *)
(*   "A"   the upper-case letter whose lower case is "a"                   *)
(*   "Lo"  a letter that has no case (Unicode category Lo, e.g. U+4E2D)    *)
(*   "*"   the regular-expression repetition operator (not a letter)       *)
(*   "("   the regular-expression group opener (not a letter)              *)
(* URL strings (the output of URL.String) also hold "?" and the percent    *)
(* escapes "%2A", "%28", "%LO" and their lower-cased forms.                *)
(***************************************************************************)
EXTENDS Integers, Sequences, FiniteSets, TLC

\* ------------------------------------------------------------- bounds
\* Longest request path.
MaxPathLen == 3
\* Direct registrations stop when a table holds this many entries.
MaxEntries == 2

\* With two routers, direct registrations stop at this many entries in all.
MaxTotal == 3

\* ------------------------------------------------------------- strings
\* The pattern texts handed to a registration:
\*   ""    refused by every registration
\*   "/"   the root, a literal pattern that ends in "/"
\*   "/a"  a literal pattern; as a regular expression, found in "/a/", "//a"
\*   "/A"  a pattern with an upper-case letter
\*   "a"   refused as a literal pattern (no leading "/")
\*   "//"  refused as a literal pattern (trailing "/")
\*   "/*"  as a regular expression, matches every string, the empty one too
\*   "a*"  the same, and refused as a literal pattern
\*   "/("  accepted as a literal pattern; not a regular expression
\*   "*"   not a regular expression either
PatternTexts ==
  {<<>>, <<"/">>, <<"/", "a">>, <<"/", "A">>, <<"a">>, <<"/", "/">>,
   <<"/", "*">>, <<"a", "*">>, <<"/", "(">>, <<"*">>}
\* The prefixes handed to Mount.
PrefixTexts == {<<>>, <<"/">>, <<"a">>, <<"/", "a">>}
PathChars == {"/", "a", "A", "Lo"}
QueryChars == {"A"}

Strings(S, n) == UNION {[1..k -> S] : k \in 0..n}

Prefix(s, n) == SubSeq(s, 1, n)

\* strings.HasSuffix(s, "/") for a non-empty s: s[len(s)-1] == '/'
LastIsSlash(s) == s[Len(s)] = "/"

\* unicode.IsLetter
IsLetter(c) == c \in {"a", "A", "Lo"}

\* unicode.IsLower
IsLowerRune(c) == c = "a"

\* strings.ToLower on one element of a URL string: an upper-case letter maps
\* to its lower case, and so do the hexadecimal digits of a percent escape.
ToLowerRune(c) ==
  CASE c = "A" -> "a"
    [] c = "%2A" -> "%2a"
    [] c = "%LO" -> "%lo"
    [] OTHER -> c

\* strings.ToLower
ToLower(s) == [i \in 1..Len(s) |-> ToLowerRune(s[i])]

\* isLower determines if s is lower case: no letter of s fails IsLower.
isLower(s) == \A i \in 1..Len(s) : ~(IsLetter(s[i]) /\ ~IsLowerRune(s[i]))

\* ------------------------------------------------------------- regexp
\* The fragment of Go's regexp syntax the pattern characters can spell:
\* literal characters, x* (zero or more x), and "(" which, with no ")" in
\* the alphabet, is always a "missing closing )" syntax error.  A "*" with
\* nothing to repeat, or repeating a "*", is a syntax error too.
Compiles(p) ==
  \A i \in 1..Len(p) :
    /\ p[i] # "("
    /\ p[i] = "*" => (i > 1 /\ p[i-1] # "*")

\* Whether the pattern from position i on matches s starting at position j.
RECURSIVE MatchHere(_, _, _, _)
MatchHere(p, i, s, j) ==
  IF i > Len(p) THEN TRUE
  ELSE IF i < Len(p) /\ p[i+1] = "*"
    THEN \/ MatchHere(p, i + 2, s, j)
         \/ (j <= Len(s) /\ s[j] = p[i] /\ MatchHere(p, i, s, j + 1))
    ELSE j <= Len(s) /\ s[j] = p[i] /\ MatchHere(p, i + 1, s, j + 1)

\* Regexp.MatchString: an unanchored search, of a pattern that compiles.
MatchString(p, s) == \E j \in 1..(Len(s) + 1) : MatchHere(p, 1, s, j)

\* ------------------------------------------------------------- URLs
\* URL.EscapedPath on one character of the path: letters and "/" are kept,
\* "*" and "(" are percent-escaped, and so are the bytes of a non-ASCII letter.
EscapeRune(c) ==
  CASE c = "*" -> "%2A"
    [] c = "(" -> "%28"
    [] c = "Lo" -> "%LO"
    [] OTHER -> c

\* url.PathUnescape on one element: hexadecimal digits of either case.
UnescapeRune(c) ==
  CASE c \in {"%2A", "%2a"} -> "*"
    [] c = "%28" -> "("
    [] c \in {"%LO", "%lo"} -> "Lo"
    [] OTHER -> c

\* URL.String of a URL that has only a path and a raw query.
URLString(path, query) ==
  [i \in 1..Len(path) |-> EscapeRune(path[i])]
    \o (IF query = <<>> THEN <<>> ELSE <<"?">> \o query)

\* http.Redirect's rewrite of a target that has no scheme and no host: a
\* target that does not begin with "/" is taken relative to the directory
\* of the request path, and repeated slashes are cleaned away (path.Clean,
\* with the trailing slash put back).
RECURSIVE LastSlash(_, _)
LastSlash(s, i) == IF i = 0 \/ s[i] = "/" THEN i ELSE LastSlash(s, i - 1)

DirOf(path) == LET old == IF path = <<>> THEN <<"/">> ELSE path
               IN  Prefix(old, LastSlash(old, Len(old)))

RECURSIVE CleanSlashes(_)
CleanSlashes(s) ==
  IF Len(s) < 2 THEN s
  ELSE IF s[1] = "/" /\ s[2] = "/" THEN CleanSlashes(Tail(s))
  ELSE <<s[1]>> \o CleanSlashes(Tail(s))

\* The position of the first "?" of a URL string, or Len + 1.
RECURSIVE QueryAt(_, _)
QueryAt(t, i) == IF i > Len(t) \/ t[i] = "?" THEN i ELSE QueryAt(t, i + 1)

\* A target beginning with "//" names another host: http.Redirect sends it
\* as it is, and the client leaves this server.
LeavesHost(t) == Len(t) >= 2 /\ t[1] = "/" /\ t[2] = "/"

\* The URL (path, query) a client requests next when it follows the
\* redirect to target t that the request for oldpath was answered with.
Location(oldpath, t) ==
  LET q    == QueryAt(t, 1)
      raw  == Prefix(t, q - 1)
      path == [i \in 1..Len(raw) |-> UnescapeRune(raw[i])]
      abs  == IF path = <<>> \/ path[1] # "/" THEN DirOf(oldpath) \o path ELSE path
  IN  [path |-> CleanSlashes(abs), query |-> SubSeq(t, q + 1, Len(t))]

\* ------------------------------------------------------------- the table
Routers == {"mux", "submux"}
\* The http.HandlerFunc values.  Every registration call passes a function
\* of its own, named here by the call it is passed to.
NewHandler(router, pattern, regexp) == [by |-> router, for |-> pattern, re |-> regexp]
\* A nil http.HandlerFunc.
NilHandler == [by |-> "nil", for |-> <<>>, re |-> FALSE]
\* The notFound given to New.
NotFoundHandler == [by |-> "notFound", for |-> <<>>, re |-> FALSE]

\* type muxEntry struct { handler; regexp }
muxEntry(handler, regexp) == [handler |-> handler, regexp |-> regexp]

\* A nil map and an empty map read alike.
EmptyTable == <<>>

NoPanic == "none"

\* register: the panic it raises for (pattern, handler, regexp) on table m,
\* in the order of the code's checks, or NoPanic.
registerPanic(m, pattern, handler, regexp) ==
  IF pattern = <<>> THEN "mux: invalid pattern"
  ELSE IF ~regexp /\ pattern # <<"/">> /\ pattern[1] # "/"
    THEN "mux: pattern must begin with /"
  ELSE IF ~regexp /\ pattern # <<"/">> /\ LastIsSlash(pattern)
    THEN "mux: pattern must not end with /"
  ELSE IF handler = NilHandler THEN "mux: nil handler"
  ELSE IF pattern \in DOMAIN m THEN "mux: multiple registrations"
  ELSE NoPanic

\* mux.m[pattern] = e
Insert(m, pattern, e) == [q \in (DOMAIN m) \cup {pattern} |-> IF q = pattern THEN e ELSE m[q]]

\* register: the table it leaves and the panic it raises.
register(m, pattern, handler, regexp) ==
  LET p == registerPanic(m, pattern, handler, regexp)
  IN  [panic |-> p,
       m |-> IF p = NoPanic THEN Insert(m, pattern, muxEntry(handler, regexp)) ELSE m]

\* The orders in which a range over map m can produce its keys.
Orders(m) == {o \in [1..Cardinality(DOMAIN m) -> DOMAIN m] :
                \A i, j \in DOMAIN o : i # j => o[i] # o[j]}

\* Mount: for pattern, e := range submux.m { mux.HandleFunc(prefix+pattern,
\* e.handler) }, the range producing the keys in the given order; a panic
\* ends the loop and leaves what was registered before it.
RECURSIVE MountFrom(_, _, _, _, _)
MountFrom(m, prefix, sub, order, i) ==
  IF i > Len(order) THEN [panic |-> NoPanic, m |-> m]
  ELSE LET r == register(m, prefix \o order[i], sub[order[i]].handler, FALSE)
       IN  IF r.panic # NoPanic THEN r
           ELSE MountFrom(r.m, prefix, sub, order, i + 1)

\* ------------------------------------------------------------- dispatch
\* A request: RequestURI "*" or not, the protocol, the method, and the
\* URL's path and raw query.
Methods == {"GET", "CONNECT"}

Request(star, proto11, method, path, query) ==
  [star |-> star, proto11 |-> proto11, method |-> method, path |-> path, query |-> query]

\* The path of a request the server parsed is empty (an absolute URI with no
\* path, a CONNECT to an authority) or begins with "/".
Paths == {<<>>} \cup {<<"/">> \o s : s \in Strings(PathChars, MaxPathLen - 1)}

\* The requests dispatched.  The protocol is read for "*" requests only,
\* so the others are taken as HTTP/1.1.
Requests ==
  {Request(FALSE, TRUE, me, pa, qu) :
     me \in Methods, pa \in Paths, qu \in Strings(QueryChars, 1)}
  \cup {Request(TRUE, pr, me, <<"*">>, <<>>) : pr \in BOOLEAN, me \in Methods}

\* What a dispatch ends in.
\*   kind     "handler" | "notFound" | "redirect" | "badRequest" | "panic"
\*   handler  the handler invoked (NilHandler when none is)
\*   pattern  the pattern of the entry that decided the outcome
\*   target   the URL string given to http.Redirect
\*   via      "slash" (line 109) | "lower" (line 117) for a redirect;
\*            "compile" (MustCompile, line 143) | "index" (path[lastIndex],
\*            line 144) for a panic; "none" otherwise
\*   code     the status written by the router (0: left to the handler)
\*   close    whether "Connection: close" was set
Response(kind, handler, pattern, target, via, code, close) ==
  [kind |-> kind, handler |-> handler, pattern |-> pattern, target |-> target,
   via |-> via, code |-> code, close |-> close]

StatusBadRequest == 400
StatusPermanentRedirect == 308

\* urlWithoutSlash(path, pattern, u), after the pattern compiled and for a
\* non-empty path: whether the path needs its trailing "/" removed.
urlWithoutSlash(path, pattern) ==
  /\ LastIsSlash(path)
  /\ \/ Prefix(path, Len(path) - 1) = pattern
     \/ MatchString(pattern, Prefix(path, Len(path) - 1))

\* CONNECT requests are not canonicalized (lines 113-120).
needsLowerMutConnectToo(r) == ~isLower(r.path)
needsLower(r) == r.method # "CONNECT" /\ ~isLower(r.path)

\* The target of the lower-case redirect (line 116).
lowerURLMutPathOnly(r) == URLString(ToLower(r.path), r.query)
lowerURL(r) == ToLower(URLString(r.path, r.query))

\* The target of the trailing-slash redirect (line 146).
slashURLMutDropQuery(r) == URLString(Prefix(r.path, Len(r.path) - 1), <<>>)
slashURL(r) == URLString(Prefix(r.path, Len(r.path) - 1), r.query)

\* The entry's own match (lines 122-133).
entryMatchesMutAlwaysRegexp(pattern, e, path) == MatchString(pattern, path)
entryMatches(pattern, e, path) ==
  IF e.regexp THEN MatchString(pattern, path) ELSE path = pattern

\* The loop of ServeHTTP from the i-th key the range produces.
RECURSIVE Scan(_, _, _, _)
Scan(m, order, i, r) ==
  IF i > Len(order)
    THEN Response("notFound", NotFoundHandler, <<>>, <<>>, "none", 0, FALSE)
  ELSE LET pattern == order[i]
           e == m[pattern]
       IN  IF ~Compiles(pattern)
             THEN Response("panic", NilHandler, pattern, <<>>, "compile", 0, FALSE)
           ELSE IF r.path = <<>>
             THEN Response("panic", NilHandler, pattern, <<>>, "index", 0, FALSE)
           ELSE IF urlWithoutSlash(r.path, pattern)
             THEN Response("redirect", NilHandler, pattern, slashURL(r), "slash",
                           StatusPermanentRedirect, FALSE)
           ELSE IF needsLower(r)
             THEN Response("redirect", NilHandler, pattern, lowerURL(r), "lower",
                           StatusPermanentRedirect, FALSE)
           ELSE IF entryMatches(pattern, e, r.path)
             THEN Response("handler", e.handler, pattern, <<>>, "none", 0, FALSE)
           ELSE Scan(m, order, i + 1, r)

\* ServeHTTP, the range over mux.m producing the keys in the given order.
Serve(m, order, r) ==
  IF r.star
    THEN Response("badRequest", NilHandler, <<>>, <<>>, "none", StatusBadRequest, r.proto11)
    ELSE Scan(m, order, 1, r)

\* ------------------------------------------------------------- state
VARIABLES
  tables,   \* tables[r]: the map m of router r
  call,     \* the call that has just ended, or Idle
  out,      \* how that call ended: its panic, its response
  before,   \* the tables as they were when that call began
  thr,      \* thr[t]: where thread t is in the call it is making
  writer,   \* writer[r]: the thread holding r.mu exclusively, or NoThread
  readers,  \* readers[r]: the threads holding r.mu shared
  crashed   \* the runtime stopped the process (a detected map race)

seqVars == <<call, out, before>>
concVars == <<thr, writer, readers, crashed>>
vars == <<tables, call, out, before, thr, writer, readers, crashed>>

NoRequest == Request(FALSE, FALSE, "none", <<>>, <<>>)
NoResponse == Response("none", NilHandler, <<>>, <<>>, "none", 0, FALSE)

Call(op, router, pattern, handler, req) ==
  [op |-> op, router |-> router, pattern |-> pattern, handler |-> handler, req |-> req]

Idle == Call("idle", "none", <<>>, NilHandler, NoRequest)
NoOut == [panic |-> NoPanic, resp |-> NoResponse]

Threads == {"t1", "t2"}
NoThread == "none"

\* A thread between calls.
ThreadIdle ==
  [pc |-> "idle", op |-> "none", router |-> "none", pattern |-> <<>>,
   handler |-> NilHandler, src |-> "none", prefix |-> <<>>, seen |-> {}, snap |-> {},
   req |-> NoRequest, resp |-> NoResponse, panic |-> NoPanic]

\* New: no table yet, the zero RWMutex, nothing called.
Init ==
  /\ tables = [r \in Routers |-> EmptyTable]
  /\ call = Idle
  /\ out = NoOut
  /\ before = tables
  /\ thr = [t \in Threads |-> ThreadIdle]
  /\ writer = [r \in Routers |-> NoThread]
  /\ readers = [r \in Routers |-> {}]
  /\ crashed = FALSE

Size(r) == Cardinality(DOMAIN tables[r])

TotalSize == Size("mux") + Size("submux")

\* A registration (HandleFunc or RegexpHandleFunc) on router r.
Register(op, r, regexp) ==
  /\ call = Idle
  /\ Size(r) < MaxEntries
  /\ \E pattern \in PatternTexts : \E handler \in {NewHandler(r, pattern, regexp), NilHandler} :
       LET res == register(tables[r], pattern, handler, regexp)
       IN  /\ tables' = [tables EXCEPT ![r] = res.m]
           /\ call' = Call(op, r, pattern, handler, NoRequest)
           /\ out' = [panic |-> res.panic, resp |-> NoResponse]
  /\ before' = tables
  /\ UNCHANGED concVars

HandleFunc(r) == Register("HandleFunc", r, FALSE)

RegexpHandleFunc(r) == Register("RegexpHandleFunc", r, TRUE)

\* mux.Mount(prefix, submux) with mux = dst and submux = src.
Mount(dst, src) ==
  /\ call = Idle
  /\ Size(dst) < MaxEntries
  /\ \E prefix \in PrefixTexts, order \in Orders(tables[src]) :
       LET res == MountFrom(tables[dst], prefix, tables[src], order, 1)
       IN  /\ tables' = [tables EXCEPT ![dst] = res.m]
           /\ call' = Call("Mount", dst, prefix, NilHandler, NoRequest)
           /\ out' = [panic |-> res.panic, resp |-> NoResponse]
  /\ before' = tables
  /\ UNCHANGED concVars

\* r.ServeHTTP(w, req)
ServeHTTP(r) ==
  /\ call = Idle
  /\ \E req \in Requests, order \in Orders(tables[r]) :
       /\ call' = Call("ServeHTTP", r, <<>>, NilHandler, req)
       /\ out' = [panic |-> NoPanic, resp |-> Serve(tables[r], order, req)]
  /\ before' = tables
  /\ UNCHANGED <<tables, concVars>>

\* The client follows a 308: the same method, the URL of the Location.
FollowRedirect ==
  /\ call.op = "ServeHTTP"
  /\ out.resp.kind = "redirect"
  /\ ~LeavesHost(out.resp.target)
  /\ LET loc == Location(call.req.path, out.resp.target)
         req == [call.req EXCEPT !.path = loc.path, !.query = loc.query]
     IN  \E order \in Orders(tables[call.router]) :
           /\ call' = Call("ServeHTTP", call.router, <<>>, NilHandler, req)
           /\ out' = [panic |-> NoPanic, resp |-> Serve(tables[call.router], order, req)]
  /\ UNCHANGED <<tables, before, concVars>>

\* The call returns to its caller (or its panic is recovered).
Return ==
  /\ call # Idle
  /\ call' = Idle
  /\ out' = NoOut
  /\ before' = tables
  /\ UNCHANGED <<tables, concVars>>

\* One router, its registrations and its dispatches.
Next ==
  \/ HandleFunc("mux")
  \/ RegexpHandleFunc("mux")
  \/ ServeHTTP("mux")
  \/ FollowRedirect
  \/ Return

Spec == Init /\ [][Next]_vars

\* Two routers, their registrations, and the mounting of one into the other.
NextMount ==
  \/ \E r \in Routers : TotalSize < MaxTotal /\ HandleFunc(r)
  \/ \E r \in Routers : TotalSize < MaxTotal /\ RegexpHandleFunc(r)
  \/ Mount("mux", "submux")
  \/ Return

SpecMount == Init /\ [][NextMount]_vars

\* ------------------------------------------------------------- threads
\* The same calls made by concurrent threads, a step at a time: the lock,
\* the body under the lock, the deferred unlock.  RWMutex: Lock waits for
\* the writer and the readers to leave, RLock for the writer.
ConcPatterns == {<<"/">>, <<"/", "a">>}
ConcPrefixes == {<<>>}
ConcRequests ==
  {Request(FALSE, TRUE, "GET", <<"/", "a", "/">>, <<>>),
   Request(TRUE, TRUE, "GET", <<"*">>, <<>>)}

\* Thread t is inside the range over submux.m of a Mount (lines 45-47):
\* between two keys, or in the HandleFunc call of the loop body.
Ranging(t) == thr[t].op = "Mount" /\ thr[t].pc # "idle"

\* HandleFunc / RegexpHandleFunc is called: register is entered (line 63).
CallRegister(t) ==
  /\ ~crashed
  /\ thr[t].pc = "idle"
  /\ \E r \in Routers, pattern \in ConcPatterns, regexp \in BOOLEAN :
       /\ Size(r) < MaxEntries
       /\ thr' = [thr EXCEPT ![t] =
            [ThreadIdle EXCEPT !.pc = "reg_lock",
                               !.op = IF regexp THEN "RegexpHandleFunc" ELSE "HandleFunc",
                               !.router = r, !.pattern = pattern,
                               !.handler = NewHandler(r, pattern, regexp)]]
  /\ UNCHANGED <<tables, writer, readers, crashed, seqVars>>

\* mux.mu.Lock() (line 64)
Lock(t) ==
  /\ ~crashed
  /\ thr[t].pc = "reg_lock"
  /\ writer[thr[t].router] = NoThread
  /\ readers[thr[t].router] = {}
  /\ writer' = [writer EXCEPT ![thr[t].router] = t]
  /\ thr' = [thr EXCEPT ![t].pc = "reg_insert"]
  /\ UNCHANGED <<tables, readers, crashed, seqVars>>

\* The body of register (lines 67-90).  A write to a map that another
\* thread is ranging over without the lock is a data race: the write may
\* go through, or the runtime may detect it and stop the process.
RegisterBody(t) ==
  /\ ~crashed
  /\ thr[t].pc = "reg_insert"
  /\ LET r   == thr[t].router
         res == register(tables[r], thr[t].pattern, thr[t].handler,
                         thr[t].op = "RegexpHandleFunc")
         raced == /\ res.panic = NoPanic
                  /\ \E u \in Threads \ {t} : Ranging(u) /\ thr[u].src = r
     IN  \/ /\ tables' = [tables EXCEPT ![r] = res.m]
            /\ thr' = [thr EXCEPT ![t].pc = "reg_unlock", ![t].panic = res.panic]
            /\ UNCHANGED crashed
         \/ /\ raced
            /\ crashed' = TRUE
            /\ UNCHANGED <<tables, thr>>
  /\ UNCHANGED <<writer, readers, seqVars>>

\* defer mux.mu.Unlock() (line 65), and the return: to the caller, or to
\* the loop of Mount; a panic ends the call.
Unlock(t) ==
  /\ ~crashed
  /\ thr[t].pc = "reg_unlock"
  /\ writer' = [writer EXCEPT ![thr[t].router] = NoThread]
  /\ thr' = [thr EXCEPT ![t] =
       IF thr[t].op = "Mount" /\ thr[t].panic = NoPanic
         THEN [thr[t] EXCEPT !.pc = "mount_range"]
         ELSE ThreadIdle]
  /\ UNCHANGED <<tables, readers, crashed, seqVars>>

\* mux.Mount(prefix, submux) is called: the range over submux.m begins
\* (line 45), with no lock of submux taken.
CallMount(t) ==
  /\ ~crashed
  /\ thr[t].pc = "idle"
  /\ Size("mux") < MaxEntries
  /\ \E prefix \in ConcPrefixes :
       thr' = [thr EXCEPT ![t] =
         [ThreadIdle EXCEPT !.pc = "mount_range", !.op = "Mount", !.router = "mux",
                            !.src = "submux", !.prefix = prefix,
                            !.snap = DOMAIN tables["submux"]]]
  /\ UNCHANGED <<tables, writer, readers, crashed, seqVars>>

\* The range produces its next key and the body calls mux.HandleFunc
\* (line 46), or the range ends.  A key created after the range began may
\* be produced or skipped.
MountNext(t) ==
  /\ ~crashed
  /\ thr[t].pc = "mount_range"
  /\ \/ \E p \in (DOMAIN tables[thr[t].src]) \ thr[t].seen :
          thr' = [thr EXCEPT ![t].pc = "reg_lock",
                             ![t].seen = @ \cup {p},
                             ![t].pattern = thr[t].prefix \o p,
                             ![t].handler = tables[thr[t].src][p].handler]
     \/ /\ thr[t].snap \subseteq thr[t].seen
        /\ thr' = [thr EXCEPT ![t] = ThreadIdle]
  /\ UNCHANGED <<tables, writer, readers, crashed, seqVars>>

\* ServeHTTP is called: a "*" request is answered before any lock is
\* taken (lines 96-102).
CallServe(t) ==
  /\ ~crashed
  /\ thr[t].pc = "idle"
  /\ \E r \in Routers, req \in ConcRequests :
       thr' = [thr EXCEPT ![t] =
         [ThreadIdle EXCEPT !.op = "ServeHTTP", !.router = r, !.req = req,
                            !.pc = IF req.star THEN "serve_return" ELSE "serve_rlock",
                            !.resp = IF req.star THEN Serve(tables[r], <<>>, req)
                                     ELSE NoResponse]]
  /\ UNCHANGED <<tables, writer, readers, crashed, seqVars>>

\* mux.mu.RLock() (line 104)
RLock(t) ==
  /\ ~crashed
  /\ thr[t].pc = "serve_rlock"
  /\ writer[thr[t].router] = NoThread
  /\ readers' = [readers EXCEPT ![thr[t].router] = @ \cup {t}]
  /\ thr' = [thr EXCEPT ![t].pc = "serve_scan"]
  /\ UNCHANGED <<tables, writer, crashed, seqVars>>

\* The scan of the table (lines 107-136).
ServeScan(t) ==
  /\ ~crashed
  /\ thr[t].pc = "serve_scan"
  /\ \E order \in Orders(tables[thr[t].router]) :
       thr' = [thr EXCEPT ![t].pc = "serve_runlock",
                          ![t].resp = Serve(tables[thr[t].router], order, thr[t].req)]
  /\ UNCHANGED <<tables, writer, readers, crashed, seqVars>>

\* defer mux.mu.RUnlock() (line 105)
RUnlock(t) ==
  /\ ~crashed
  /\ thr[t].pc = "serve_runlock"
  /\ readers' = [readers EXCEPT ![thr[t].router] = @ \ {t}]
  /\ thr' = [thr EXCEPT ![t].pc = "serve_return"]
  /\ UNCHANGED <<tables, writer, crashed, seqVars>>

\* ServeHTTP returns.
ServeReturn(t) ==
  /\ ~crashed
  /\ thr[t].pc = "serve_return"
  /\ thr' = [thr EXCEPT ![t] = ThreadIdle]
  /\ UNCHANGED <<tables, writer, readers, crashed, seqVars>>

NextConc ==
  \E t \in Threads :
    \/ CallRegister(t)
    \/ Lock(t)
    \/ RegisterBody(t)
    \/ Unlock(t)
    \/ CallMount(t)
    \/ MountNext(t)
    \/ CallServe(t)
    \/ RLock(t)
    \/ ServeScan(t)
    \/ RUnlock(t)
    \/ ServeReturn(t)

SpecConc == Init /\ [][NextConc]_vars

\* ------------------------------------------------------------- claims
\* A dispatch has just ended: its router's table, its request, its response.
Served == call.op = "ServeHTTP"
m == tables["mux"]
req == call.req
resp == out.resp
Stripped == Prefix(req.path, Len(req.path) - 1)
EndsInSlash == req.path # <<>> /\ LastIsSlash(req.path)
HasUpper(s) == \E i \in 1..Len(s) : s[i] = "A"
AllCompile == \A q \in DOMAIN m : Compiles(q)
AllLiteral == \A q \in DOMAIN m : ~m[q].regexp
\* The path itself is a registered literal pattern.
PathIsLiteral == req.path \in DOMAIN m /\ ~m[req.path].regexp
\* The slash-stripped path equals a registered literal pattern or matches a
\* registered regular-expression pattern.
StrippedIsRegistered ==
  \E q \in DOMAIN m :
    IF m[q].regexp THEN Compiles(q) /\ MatchString(q, Stripped) ELSE Stripped = q
IsSlashRedirect ==
  /\ resp.kind = "redirect"
  /\ resp.code = 308
  /\ resp.handler = NilHandler
  /\ resp.target = URLString(Stripped, req.query)
IsLowerRedirect ==
  /\ resp.kind = "redirect"
  /\ resp.code = 308
  /\ resp.handler = NilHandler
  /\ resp.target = ToLower(URLString(req.path, req.query))

C1_Case ==
  /\ Served /\ ~req.star /\ AllCompile /\ PathIsLiteral
  /\ (isLower(req.path) \/ req.method = "CONNECT")
  /\ \A q \in DOMAIN m : m[q].regexp => ~MatchString(q, req.path)
  /\ req.path = <<"/">> => \A q \in DOMAIN m : ~MatchString(q, <<>>)

C4_Case ==
  /\ Served /\ ~req.star /\ EndsInSlash /\ StrippedIsRegistered
  /\ (isLower(req.path) \/ req.method = "CONNECT")
  /\ \A q \in DOMAIN m : Compiles(q) => ~entryMatches(q, m[q], req.path)

C5_Case ==
  Served /\ ~req.star /\ req.method # "CONNECT" /\ HasUpper(req.path) /\ DOMAIN m # {}

C6_ConnectNeverRedirected ==
  (Served /\ req.method = "CONNECT") => resp.kind # "redirect"

\* C6 amended: a CONNECT request is never answered with the lower-case
\* redirect; the trailing-slash redirect applies to it as to any method,
\* so it ends in a handler, not-found, bad request, that redirect, or a
\* fatal error.
C6_ConnectNotLowered ==
  (Served /\ req.method = "CONNECT")
    => /\ resp.via # "lower"
       /\ resp.kind = "redirect" => (EndsInSlash /\ IsSlashRedirect)

\* C6's case: a CONNECT request with an upper-case path reaches a handler.
C6_Witness ==
  /\ Served /\ req.method = "CONNECT" /\ HasUpper(req.path)
  /\ resp.kind = "handler"

\* C8 as stated, on tables whose patterns compile and for paths that are
\* not empty and hold no letter without case (the fatal errors of C10 and
\* the redirect of C9 set aside): with literal patterns only, a path that
\* is no registered pattern, holds no upper-case letter and is no registered
\* pattern followed by "/" gets the not-found handler.
C8_OtherPathNotFound ==
  (/\ Served /\ ~req.star /\ AllLiteral /\ AllCompile
   /\ req.path # <<>> /\ isLower(req.path)
   /\ req.path \notin DOMAIN m
   /\ ~(LastIsSlash(req.path) /\ Stripped \in DOMAIN m))
    => (resp.kind = "notFound" /\ resp.handler = NotFoundHandler)

\* C9 as stated, its last sentence: no redirect is issued whose target is
\* the URL of the request that produced it.  (A redirect of that kind is a
\* chain that never ends.)
C9_NoSelfRedirect ==
  (Served /\ resp.kind = "redirect" /\ resp.via = "lower" /\ ~LeavesHost(resp.target))
    => Location(req.path, resp.target) # [path |-> req.path, query |-> req.query]

\* C10 as stated: on a table of literal patterns only, no dispatch ends in
\* a fatal error.
C10_LiteralTableNeverPanics ==
  (Served /\ AllLiteral) => resp.kind # "panic"

\* C2 as stated: a registration, direct or in a Mount, that fails on a
\* pattern that is already there leaves the destination table as it was
\* before the call.
C2_FailedDuplicateLeavesTable ==
  (call.op \in {"HandleFunc", "RegexpHandleFunc", "Mount"}
     /\ out.panic = "mux: multiple registrations")
    => tables[call.router] = before[call.router]

\* C3 as stated: after Mount(prefix, source) every entry of the source is
\* in the destination under prefix+pattern with its handler and its
\* is-regular-expression flag, and the destination's earlier entries and
\* the source are as they were.
C3_MountKeepsEntries ==
  (call.op = "Mount" /\ out.panic = NoPanic)
    => /\ \A p \in DOMAIN before["submux"] :
            /\ (call.pattern \o p) \in DOMAIN tables["mux"]
            /\ tables["mux"][call.pattern \o p] = before["submux"][p]
       /\ \A q \in DOMAIN before["mux"] :
            q \in DOMAIN tables["mux"] /\ tables["mux"][q] = before["mux"][q]
       /\ tables["submux"] = before["submux"]

\* C7 as stated, its conclusion: no state is reached in which one thread is
\* inserting into a table (it is in the body of register, the lock held
\* exclusively) while another thread is reading or enumerating that table
\* (the scan of ServeHTTP, the range of Mount over its source).
C7_NoInsertWhileReading ==
  \A t \in Threads, u \in Threads :
    (t # u /\ thr[t].pc = "reg_insert")
      => /\ ~(thr[u].pc = "serve_scan" /\ thr[u].router = thr[t].router)
         /\ ~(Ranging(u) /\ thr[u].src = thr[t].router)
====
